---- MODULE Spec2Model ----
(***************************************************************************)
(* Blocked Sieve of Eratosthenes on libunifex senders:                     *)
(* sieve_unifex_block<bool_t>(n, block_size) of sieve_ccotter_fun.cpp.     *)
(*                                                                         *)
(* The caller computes the base primes, sizes the result table, builds     *)
(* n / block_size + 1 senders, hands them to when_all2 and blocks in       *)
(* sync_wait.  Each sender is the chain                                    *)
(*   input_body -> gen_range -> range_sieve -> sieve_to_primes_part        *)
(*              -> output_body                                             *)
(* The stages of different senders are interleaved freely between the      *)
(* start of sync_wait and its completion: the source fixes neither the     *)
(* order in which when_all2 starts its children nor their relative         *)
(* progress.                                                               *)
(*                                                                         *)
(* sieve.hpp and sieve_fun.hpp (sieve_seq, sieve_to_primes, input_body,    *)
(* gen_range, range_sieve, sieve_to_primes_part, output_body) are          *)
(* modelled from the specification text, sections 3, 4.1, 4.2 and 4.3.     *)
(***************************************************************************)
EXTENDS Integers, Sequences, FiniteSets, TLC

\* ---------------------------------------------------------------- bounds
MaxN == 10
MaxBlock == 11
MaxTasks == 3
MaxPool == 2
MaxFairN == 6

VARIABLES
  call,         \* which of main's two calls of sieve_unifex_block is running: 1 or 2
  n,            \* parameter n: upper bound of the sieve
  block_size,   \* parameter block_size
  hw,           \* std::thread::hardware_concurrency(), the size of pool
  pc,           \* position of the calling thread in sieve_unifex_block
  sqrt_n,       \* local sqrt_n
  base_primes,  \* local base_primes
  prime_list,   \* local prime_list: slot -> [set, val]; set = FALSE is a null shared_ptr
  quot,         \* value of the expression n / block_size
  divzero,      \* TRUE once n / block_size has been evaluated with block_size = 0
  bod,          \* the counter p of the input_body object bod
  D,            \* the vector D of senders: sequence of pipeline records
  res,          \* what sync_wait delivered: "none", "value" or "error"
  wlog          \* history: slot -> the senders (positions in D) that assigned prime_list[slot], in order

vars == <<call, n, block_size, hw, pc, sqrt_n, base_primes, prime_list, quot, divzero,
          bod, D, res, wlog>>

\* ------------------------------------------------------- pure arithmetic
Min(a, b) == IF a <= b THEN a ELSE b

\* static_cast<size_t>(std::ceil(std::sqrt(m)))
RECURSIVE CeilSqrtFrom(_, _)
CeilSqrtFrom(m, k) == IF k * k >= m THEN k ELSE CeilSqrtFrom(m, k + 1)

CeilSqrt(m) == CeilSqrtFrom(m, 0)

IsPrime(k) == k >= 2 /\ \A d \in 2..(k - 1) : k % d # 0

\* the ascending sequence of the members of the finite set S of naturals
RECURSIVE SortedSeq(_)
SortedSeq(S) ==
  IF S = {} THEN << >>
  ELSE LET m == CHOOSE x \in S : \A y \in S : x <= y
       IN  <<m>> \o SortedSeq(S \ {m})

PrimesUpTo(m) == SortedSeq({k \in 2..m : IsPrime(k)})

Range(s) == {s[i] : i \in 1..Len(s)}

StrictlyAscending(s) == \A i \in 1..(Len(s) - 1) : s[i] < s[i + 1]

\* ------------------------------------------------ sieve.hpp, sieve_fun.hpp
\* A candidate buffer is a sequence of BOOLEAN; TRUE means "still prime".

\* strike the integers of S out of a buffer whose position i stands for off + i - 1
Strike(buf, off, S) == [i \in 1..Len(buf) |-> buf[i] /\ (off + i - 1) \notin S]

Multiples(k, from, to) == {j \in from..to : j % k = 0}

RECURSIVE sieve_seq_loop(_, _, _)
sieve_seq_loop(buf, k, m) ==
  IF k * k > m THEN buf
  ELSE sieve_seq_loop(IF buf[k + 1] THEN Strike(buf, 0, Multiples(k, k * k, m)) ELSE buf,
                      k + 1, m)

\* buffer of size m + 1, position k composite iff k has a proper divisor >= 2
sieve_seq(m) == sieve_seq_loop([i \in 1..(m + 1) |-> TRUE], 2, m)

\* the positions >= from of a buffer (offset off) that are still marked prime
RECURSIVE Unmarked(_, _, _)
Unmarked(buf, off, i) ==
  IF i > Len(buf) THEN << >>
  ELSE (IF buf[i] THEN <<off + i - 1>> ELSE << >>) \o Unmarked(buf, off, i + 1)

\* collect the indices still marked prime, skipping 0 and 1
sieve_to_primes(buf) == Unmarked(buf, 0, 3)

\* block index -> (slot, [lo, hi)): the blocks tile (sqrt_n, n], clipped to n
gen_range(p, bs, sq, m) ==
  LET lo == Min(sq + 1 + p * bs, m + 1)
  IN  [slot |-> p + 1, lo |-> lo, hi |-> Min(lo + bs, m + 1)]

\* the smallest multiple of pr that is >= lo and >= pr * pr
FirstMultiple(pr, lo) ==
  LET q == ((lo + pr - 1) \div pr) * pr
  IN  IF q >= pr * pr THEN q ELSE pr * pr

RECURSIVE range_sieve_loop(_, _, _, _, _)
range_sieve_loop(buf, lo, hi, primes, i) ==
  IF i > Len(primes) THEN buf
  ELSE LET pr == primes[i]
       IN  range_sieve_loop(
             IF pr * pr <= hi
               THEN Strike(buf, lo, Multiples(pr, FirstMultiple(pr, lo), hi - 1))
               ELSE buf,
             lo, hi, primes, i + 1)

\* fresh buffer over [lo, hi), multiples of the base primes struck out
range_sieve(lo, hi, primes) ==
  range_sieve_loop([i \in 1..(hi - lo) |-> TRUE], lo, hi, primes, 1)

\* local index -> global integer lo + i, ascending
sieve_to_primes_part(buf, lo) == Unmarked(buf, lo, 1)

\* prime_list[slot] = primes
output_body(table, slot, primes) ==
  [table EXCEPT ![slot] = [set |-> TRUE, val |-> primes]]

\* ------------------------------------------------------ sieve_unifex_block
NullPtr == [set |-> FALSE, val |-> << >>]

\* std::bind with block_size and sqrt_n exchanged
bound_gen_range_swapped(p, bs, sq, m) == gen_range(p, sq, bs, m)

\* line 88: std::bind(gen_range<bool_t>, _1, block_size, sqrt_n, n)
bound_gen_range(p, bs, sq, m) == gen_range(p, bs, sq, m)

\* prime_list(n / block_size + 1)
TableSizeShort(q) == q + 1

\* prime_list(n / block_size + 3)
TableSizeLong(q) == q + 3

\* size of prime_list: n / block_size + 2
TableSize(q) == q + 2

\* loop bound i < n / block_size
NumSendersShort(q) == q

\* loop bound i <= n / block_size + 1
NumSendersLong(q) == q + 2

\* number of senders emplaced into D: the loop bound n / block_size + 1
NumSenders(q) == q + 1

\* a sender as built by make_snd, not yet started
\* (just() names no scheduler: thread is the thread that starts the sender)
make_snd == [stage |-> "pending", thread |-> "none", p |-> 0, slot |-> 0,
             lo |-> 0, hi |-> 0, sieve |-> << >>, primes |-> << >>]

Terminal(t) == t.stage \in {"completed", "failed"}

Status(t) ==
  CASE t.stage = "pending"   -> "Pending"
    [] t.stage = "completed" -> "Completed"
    [] t.stage = "failed"    -> "Failed"
    [] OTHER                 -> "Running"

\* the slots of a table concatenated in ascending index order
RECURSIVE FlattenFrom(_, _)
FlattenFrom(table, i) ==
  IF i \notin DOMAIN table THEN << >>
  ELSE table[i].val \o FlattenFrom(table, i + 1)

Flatten(table) == FlattenFrom(table, 0)

\* what the chain gen_range | range_sieve | sieve_to_primes_part yields for index p
BlockPrimes(p, bs, sq, m, primes) ==
  LET r == bound_gen_range(p, bs, sq, m)
  IN  sieve_to_primes_part(range_sieve(r.lo, r.hi, primes), r.lo)

\* the table of a run whose senders run to completion one after the other,
\* in the order of D
SeqTable(m, bs) ==
  LET sq   == CeilSqrt(m)
      base == sieve_to_primes(sieve_seq(sq))
      q    == m \div bs
  IN  [i \in 0..(TableSize(q) - 1) |->
         IF i = 0 THEN [set |-> TRUE, val |-> base]
         ELSE IF i <= NumSenders(q)
                THEN [set |-> TRUE, val |-> BlockPrimes(i - 1, bs, sq, m, base)]
                ELSE NullPtr]

RunSieveFlat(m, bs) == Flatten(SeqTable(m, bs))

Init ==
  /\ call = 1
  /\ n \in 0..MaxN
  /\ block_size \in 0..MaxBlock
  /\ block_size > 0 => NumSenders(n \div block_size) <= MaxTasks
  /\ hw \in 1..MaxPool
  /\ pc = "entry"
  /\ sqrt_n = 0
  /\ base_primes = << >>
  /\ prime_list = << >>
  /\ quot = 0
  /\ divzero = FALSE
  /\ bod = 0
  /\ D = << >>
  /\ res = "none"
  /\ wlog = << >>

\* first sieve one short: sieve_seq(sqrt_n - 1)
BaseSieveShort ==
  /\ pc = "entry"
  /\ sqrt_n' = CeilSqrt(n)
  /\ base_primes' = sieve_to_primes(sieve_seq(CeilSqrt(n) - 1))
  /\ pc' = "table"
  /\ UNCHANGED <<call, n, block_size, hw, prime_list, quot, divzero, bod, D, res, wlog>>

\* lines 62-66: sqrt_n, first_sieve, base_primes
BaseSieve ==
  /\ pc = "entry"
  /\ sqrt_n' = CeilSqrt(n)
  /\ base_primes' = sieve_to_primes(sieve_seq(CeilSqrt(n)))
  /\ pc' = "table"
  /\ UNCHANGED <<call, n, block_size, hw, prime_list, quot, divzero, bod, D, res, wlog>>

\* line 70 left out: slot 0 stays a null pointer
SizeTableNoBase ==
  /\ pc = "table"
  /\ block_size > 0
  /\ divzero' = FALSE
  /\ quot' = n \div block_size
  /\ pc' = "build"
  /\ prime_list' = [i \in 0..(TableSize(quot') - 1) |-> NullPtr]
  /\ wlog' = [i \in 0..(TableSize(quot') - 1) |-> << >>]
  /\ UNCHANGED <<call, n, block_size, hw, sqrt_n, base_primes, bod, D, res>>

\* lines 69-70: prime_list(n / block_size + 2); prime_list[0] = base_primes.
\* With block_size = 0 the division is undefined; the builds either trap
\* (x86 #DE, SIGFPE) or carry on with the quotient 0 (AArch64 udiv).
SizeTable ==
  /\ pc = "table"
  /\ divzero' = (block_size = 0)
  /\ \/ /\ block_size > 0
        /\ quot' = n \div block_size
        /\ pc' = "build"
     \/ /\ block_size = 0
        /\ quot' = 0
        /\ pc' = "build"
     \/ /\ block_size = 0
        /\ quot' = 0
        /\ pc' = "crashed"
  /\ prime_list' = IF pc' = "crashed" THEN prime_list
                   ELSE [i \in 0..(TableSize(quot') - 1) |->
                           IF i = 0 THEN [set |-> TRUE, val |-> base_primes] ELSE NullPtr]
  /\ wlog' = IF pc' = "crashed" THEN wlog
             ELSE [i \in 0..(TableSize(quot') - 1) |-> << >>]
  /\ UNCHANGED <<call, n, block_size, hw, sqrt_n, base_primes, bod, D, res>>

\* lines 108-111: one iteration of the loop that fills D
Emplace ==
  /\ pc = "build"
  /\ Len(D) < NumSenders(quot)
  /\ D' = Append(D, make_snd)
  /\ UNCHANGED <<call, n, block_size, hw, pc, sqrt_n, base_primes, prime_list, quot,
                 divzero, bod, res, wlog>>

\* lines 113-114: when_all2(begin(D), end(D)) handed to sync_wait
StartAll ==
  /\ pc = "build"
  /\ Len(D) >= NumSenders(quot)
  /\ pc' = "sync_wait"
  /\ UNCHANGED <<call, n, block_size, hw, sqrt_n, base_primes, prime_list, quot,
                 divzero, bod, D, res, wlog>>

\* the lambda capturing bod by value: every sender counts on its own copy
DrawCopy(i) ==
  /\ pc = "sync_wait"
  /\ D[i].stage = "pending"
  /\ D' = [D EXCEPT ![i].stage = "drawn", ![i].thread = "caller", ![i].p = 0]
  /\ UNCHANGED <<call, n, block_size, hw, pc, sqrt_n, base_primes, prime_list, quot,
                 divzero, bod, res, wlog>>

\* lines 80-81, 86-87: the sender is started by sync_wait on the calling
\* thread (just() names no scheduler, the pool is not asked for one) and runs
\* then(l): l calls bod() on the one counter captured by reference,
\* fetch-and-increment
Draw(i) ==
  /\ pc = "sync_wait"
  /\ D[i].stage = "pending"
  /\ D' = [D EXCEPT ![i].stage = "drawn", ![i].thread = "caller", ![i].p = bod]
  /\ bod' = bod + 1
  /\ UNCHANGED <<call, n, block_size, hw, pc, sqrt_n, base_primes, prime_list, quot,
                 divzero, res, wlog>>

\* line 88: then(bind(gen_range, _1, block_size, sqrt_n, n))
GenRange(i) ==
  /\ pc = "sync_wait"
  /\ D[i].stage = "drawn"
  /\ LET r == bound_gen_range(D[i].p, block_size, sqrt_n, n)
     IN  D' = [D EXCEPT ![i].stage = "ranged", ![i].slot = r.slot,
                        ![i].lo = r.lo, ![i].hi = r.hi]
  /\ UNCHANGED <<call, n, block_size, hw, pc, sqrt_n, base_primes, prime_list, quot,
                 divzero, bod, res, wlog>>

\* line 89: then(bind(range_sieve, _1, cref(base_primes)))
RangeSieve(i) ==
  /\ pc = "sync_wait"
  /\ D[i].stage = "ranged"
  /\ D' = [D EXCEPT ![i].stage = "sieved",
                    ![i].sieve = range_sieve(D[i].lo, D[i].hi, base_primes)]
  /\ UNCHANGED <<call, n, block_size, hw, pc, sqrt_n, base_primes, prime_list, quot,
                 divzero, bod, res, wlog>>

\* line 90: then(sieve_to_primes_part); the candidate buffer is dropped
ToPrimes(i) ==
  /\ pc = "sync_wait"
  /\ D[i].stage = "sieved"
  /\ D' = [D EXCEPT ![i].stage = "extracted",
                    ![i].primes = sieve_to_primes_part(D[i].sieve, D[i].lo),
                    ![i].sieve = << >>]
  /\ UNCHANGED <<call, n, block_size, hw, pc, sqrt_n, base_primes, prime_list, quot,
                 divzero, bod, res, wlog>>

\* deposit into the next free slot instead of the block's own
OutputNextFree(i) ==
  /\ pc = "sync_wait"
  /\ D[i].stage = "extracted"
  /\ LET k == 1 + Cardinality({j \in 1..Len(D) : D[j].stage = "completed"})
     IN  /\ prime_list' = output_body(prime_list, k, D[i].primes)
         /\ wlog' = [wlog EXCEPT ![k] = Append(@, i)]
  /\ D' = [D EXCEPT ![i].stage = "completed", ![i].primes = << >>]
  /\ UNCHANGED <<call, n, block_size, hw, pc, sqrt_n, base_primes, quot, divzero, bod, res>>

\* the chain with the deposit ahead of the extraction
OutputEarly(i) ==
  /\ pc = "sync_wait"
  /\ D[i].stage = "sieved"
  /\ prime_list' = output_body(prime_list, D[i].slot, D[i].primes)
  /\ wlog' = [wlog EXCEPT ![D[i].slot] = Append(@, i)]
  /\ D' = [D EXCEPT ![i].stage = "completed", ![i].sieve = << >>]
  /\ UNCHANGED <<call, n, block_size, hw, pc, sqrt_n, base_primes, quot, divzero, bod, res>>

\* deposit at the block index itself instead of the slot after it
OutputSlotBelow(i) ==
  /\ pc = "sync_wait"
  /\ D[i].stage = "extracted"
  /\ prime_list' = output_body(prime_list, D[i].slot - 1, D[i].primes)
  /\ wlog' = [wlog EXCEPT ![D[i].slot - 1] = Append(@, i)]
  /\ D' = [D EXCEPT ![i].stage = "completed", ![i].primes = << >>]
  /\ UNCHANGED <<call, n, block_size, hw, pc, sqrt_n, base_primes, quot, divzero, bod, res>>

\* line 91: then(bind(output_body, _1, ref(prime_list))).  A slot outside the
\* table is a write past the end of the vector.
Output(i) ==
  /\ pc = "sync_wait"
  /\ D[i].stage = "extracted"
  /\ IF D[i].slot \in DOMAIN prime_list
       THEN /\ prime_list' = output_body(prime_list, D[i].slot, D[i].primes)
            /\ wlog' = [wlog EXCEPT ![D[i].slot] = Append(@, i)]
            /\ D' = [D EXCEPT ![i].stage = "completed", ![i].primes = << >>]
            /\ pc' = pc
       ELSE /\ pc' = "crashed"
            /\ UNCHANGED <<prime_list, wlog, D>>
  /\ UNCHANGED <<call, n, block_size, hw, sqrt_n, base_primes, quot, divzero, bod, res>>

\* lines 89-90: an allocation of the candidate buffer or of the block's prime
\* list throws; the sender completes with set_error
Fail(i) ==
  /\ pc = "sync_wait"
  /\ D[i].stage \in {"ranged", "sieved"}
  /\ D' = [D EXCEPT ![i].stage = "failed", ![i].sieve = << >>]
  /\ UNCHANGED <<call, n, block_size, hw, pc, sqrt_n, base_primes, prime_list, quot,
                 divzero, bod, res, wlog>>

\* sync_wait released by the first sender to complete
JoinAny ==
  /\ pc = "sync_wait"
  /\ \E i \in 1..Len(D) : Terminal(D[i])
  /\ IF \E i \in 1..Len(D) : D[i].stage = "failed"
       THEN res' = "error" /\ pc' = "threw"
       ELSE res' = "value" /\ pc' = "returned"
  /\ UNCHANGED <<call, n, block_size, hw, sqrt_n, base_primes, prime_list, quot,
                 divzero, bod, D, wlog>>

\* the error of a sender dropped: prime_list is returned whatever happened
JoinSwallow ==
  /\ pc = "sync_wait"
  /\ \A i \in 1..Len(D) : Terminal(D[i])
  /\ res' = "value"
  /\ pc' = "returned"
  /\ UNCHANGED <<call, n, block_size, hw, sqrt_n, base_primes, prime_list, quot,
                 divzero, bod, D, wlog>>

\* a join that counts the senders that completed with a value only
JoinCompletedOnly ==
  /\ pc = "sync_wait"
  /\ \A i \in 1..Len(D) : D[i].stage = "completed"
  /\ res' = "value"
  /\ pc' = "returned"
  /\ UNCHANGED <<call, n, block_size, hw, sqrt_n, base_primes, prime_list, quot,
                 divzero, bod, D, wlog>>

\* lines 114-118: sync_wait returns once when_all2 has completed, that is once
\* every sender of D has completed; an error is rethrown out of the function,
\* otherwise prime_list is returned
Join ==
  /\ pc = "sync_wait"
  /\ \A i \in 1..Len(D) : Terminal(D[i])
  /\ IF \E i \in 1..Len(D) : D[i].stage = "failed"
       THEN res' = "error" /\ pc' = "threw"
       ELSE res' = "value" /\ pc' = "returned"
  /\ UNCHANGED <<call, n, block_size, hw, sqrt_n, base_primes, prime_list, quot,
                 divzero, bod, D, wlog>>

Next ==
  \/ BaseSieve
  \/ SizeTable
  \/ Emplace
  \/ StartAll
  \/ \E i \in 1..Len(D) : Draw(i)
  \/ \E i \in 1..Len(D) : GenRange(i)
  \/ \E i \in 1..Len(D) : RangeSieve(i)
  \/ \E i \in 1..Len(D) : ToPrimes(i)
  \/ \E i \in 1..Len(D) : Output(i)
  \/ \E i \in 1..Len(D) : Fail(i)
  \/ Join

Spec == Init /\ [][Next]_vars

\* the calls checked for termination: n up to MaxFairN, one pool size (no
\* step reads hw)
InitFair == Init /\ n <= MaxFairN /\ hw = 1

\* Every thread that can take a step eventually takes one.
SpecFair == InitFair /\ [][Next]_vars /\ WF_vars(Next)

\* the block counter as a process-wide object: it outlives the call
NextCallKeepCounter ==
  /\ call = 1
  /\ pc = "returned"
  /\ call' = 2
  /\ pc' = "entry"
  /\ sqrt_n' = 0
  /\ base_primes' = << >>
  /\ prime_list' = << >>
  /\ quot' = 0
  /\ D' = << >>
  /\ res' = "none"
  /\ wlog' = << >>
  /\ UNCHANGED <<n, block_size, hw, divzero, bod>>

\* main, lines 133-134: the first call has returned, sieve_unifex_block<char>
\* is called with the same number and block size; its locals, the counter bod
\* of line 80 among them, are new objects
NextCall ==
  /\ call = 1
  /\ pc = "returned"
  /\ call' = 2
  /\ pc' = "entry"
  /\ sqrt_n' = 0
  /\ base_primes' = << >>
  /\ prime_list' = << >>
  /\ quot' = 0
  /\ bod' = 0
  /\ D' = << >>
  /\ res' = "none"
  /\ wlog' = << >>
  /\ UNCHANGED <<n, block_size, hw, divzero>>

NextMain == Next \/ NextCall

\* the program: both calls of main
SpecMain == Init /\ [][NextMain]_vars

\* ------------------------------------------------------------------ claims
Returned == pc = "returned"

Joined == pc \in {"returned", "threw"}

Started == pc \in {"sync_wait", "returned", "threw"}

Drawn == {i \in 1..Len(D) : D[i].stage # "pending"}

BlockSlots == DOMAIN prime_list \ {0}

\* the concatenation of the block slots alone
Blocks == FlattenFrom(prime_list, 1)

\* C1: once the call has returned with block_size > 0, the slots of the table
\* concatenated in ascending index order are exactly the primes <= n, strictly
\* ascending; no integer is both in the base list and in a block result, and
\* n is present when it is prime.
C1_FlattenIsPrimes ==
  (Returned /\ block_size > 0) =>
    /\ Flatten(prime_list) = PrimesUpTo(n)
    /\ StrictlyAscending(Flatten(prime_list))
    /\ Range(prime_list[0].val) \cap Range(Blocks) = {}
    /\ IsPrime(n) => n \in Range(Flatten(prime_list))

C1_Witness ==
  /\ Returned
  /\ block_size > 0
  /\ Len(D) = 3
  /\ IsPrime(n)
  /\ prime_list[0].val # << >>
  /\ prime_list[1].val # << >>
  /\ prime_list[2].val # << >>

\* C2: join barrier: the caller is past sync_wait (the table returned, or the
\* error rethrown) only when every sender of D is Completed or Failed.
C2_JoinBarrier ==
  Joined => \A i \in 1..Len(D) : Status(D[i]) \in {"Completed", "Failed"}

C2_Witness ==
  /\ Returned
  /\ Len(D) = 3
  /\ \A i \in 1..Len(D) : Status(D[i]) = "Completed"

\* C3: exactly n / block_size + 1 senders are launched; the indices drawn so
\* far are pairwise different and are exactly 0 .. bod - 1; once the join has
\* released the caller they are exactly 0 .. n / block_size.
C3_ExactlyOnceIndices ==
  /\ (Started /\ block_size > 0) => Len(D) = (n \div block_size) + 1
  /\ \A i, j \in Drawn : i # j => D[i].p # D[j].p
  /\ {D[i].p : i \in Drawn} = 0..(bod - 1)
  /\ (Joined /\ block_size > 0) =>
       {D[i].p : i \in 1..Len(D)} = 0..(n \div block_size)

\* the last sender of D drew index 0 and the first one the last index
C3_Witness ==
  /\ Joined
  /\ Len(D) = 3
  /\ D[3].p = 0
  /\ D[1].p = 2

\* C4: single writer per slot: slot 0 is never written by a sender, every
\* other slot is written at most once, by the sender that drew the slot's
\* block index, and a step that writes one slot leaves every other slot alone.
SingleWriter ==
  /\ 0 \in DOMAIN wlog => wlog[0] = << >>
  /\ \A k \in DOMAIN wlog :
       /\ Len(wlog[k]) <= 1
       /\ Len(wlog[k]) = 1 => D[wlog[k][1]].p + 1 = k

WriteFrame ==
  (prime_list # << >> /\ prime_list' # prime_list) =>
    /\ DOMAIN prime_list' = DOMAIN prime_list
    /\ Cardinality({k \in DOMAIN prime_list : prime_list'[k] # prime_list[k]}) = 1
    /\ Cardinality({k \in DOMAIN wlog : wlog'[k] # wlog[k]}) = 1

C4_SingleWriterPerSlot == []SingleWriter /\ [][WriteFrame]_vars

\* two slots written, by senders that drew in the reverse of D's order
C4_Witness ==
  /\ pc = "sync_wait"
  /\ Len(D) = 3
  /\ wlog[1] = <<3>>
  /\ wlog[3] = <<1>>
  /\ prime_list[3].set
  /\ ~prime_list[2].set

\* C5: schedule independence: whatever hw is, whichever sender drew which
\* index and in whichever order the senders finished, the table returned is
\* the table of the run that executes the senders one after the other.
C5_ScheduleIndependent ==
  (Returned /\ block_size > 0) => prime_list = SeqTable(n, block_size)

\* returned after the senders finished out of order
C5_Witness ==
  /\ Returned
  /\ block_size > 0
  /\ hw = MaxPool
  /\ Len(D) = 3
  /\ D[1].p = 1
  /\ D[2].p = 2
  /\ D[3].p = 0
  /\ prime_list[1].val # << >>

\* C6: partition invariance: for n >= 2 and 1 <= block_size <= n the flattened
\* table returned equals the flattened result for every other block size
\* b2 in 1 .. n.
C6_PartitionInvariant ==
  (Returned /\ n >= 2 /\ block_size \in 1..n) =>
    \A b2 \in 1..n : Flatten(prime_list) = RunSieveFlat(n, b2)

C6_Witness ==
  /\ Returned
  /\ n = MaxN
  /\ block_size \in 1..(n - 1)
  /\ Len(D) = 3
  /\ Len(Blocks) >= 2

\* C7: a call with block_size = 0 is rejected before scheduling: n / block_size
\* is never evaluated, no table is sized, no sender is built, and the call
\* does not get past the configuration check.
C7_ZeroBlockSizeRejected ==
  block_size = 0 =>
    /\ ~divzero
    /\ prime_list = << >>
    /\ D = << >>
    /\ pc \in {"entry", "table", "rejected"}

\* C8: failure propagation: when a sender ended Failed the join rethrows (the
\* table is not returned), and a table that is returned has no null slot.
C8_FailurePropagates ==
  /\ (Joined /\ \E i \in 1..Len(D) : Status(D[i]) = "Failed") =>
       (pc = "threw" /\ res = "error")
  /\ (Returned /\ block_size > 0) =>
       (res = "value" /\ \A k \in DOMAIN prime_list : prime_list[k].set)

\* one sender failed, the others completed and deposited
C8_Witness ==
  /\ pc = "threw"
  /\ Len(D) = 3
  /\ Status(D[2]) = "Failed"
  /\ Status(D[1]) = "Completed"
  /\ Status(D[3]) = "Completed"

\* C9: small bounds: with block_size > 0, n = 0 and n = 1 return an empty
\* flattened table and n = 2 returns exactly <<2>>.
C9_SmallBounds ==
  (Returned /\ block_size > 0) =>
    /\ n \in {0, 1} => Flatten(prime_list) = << >>
    /\ n = 2 => Flatten(prime_list) = <<2>>

C9_Witness ==
  /\ Returned
  /\ n = 2
  /\ block_size = 1
  /\ Flatten(prime_list) = <<2>>

\* C10 as stated: whenever block_size >= n exactly one sender is launched, and
\* the flattened result equals that of every multi-block run for the same n.
C10_SingleBlockOriginal ==
  (Started /\ block_size > 0 /\ block_size >= n) =>
    /\ Len(D) = 1
    /\ Returned => \A b2 \in 1..(n - 1) : Flatten(prime_list) = RunSieveFlat(n, b2)

\* C10 amended: block_size > n launches exactly one sender; block_size = n >= 1
\* launches two, the second over an empty range, so that one block holds all
\* the block primes; in both cases the flattened result equals that of every
\* run with a smaller block size.
C10_SingleBlockAmended ==
  (Started /\ block_size > 0 /\ block_size >= n) =>
    /\ block_size > n => Len(D) = 1
    /\ block_size = n => Len(D) = 2
    /\ Returned =>
         /\ \A k \in BlockSlots : k >= 2 => prime_list[k].val = << >>
         /\ \A b2 \in 1..(n - 1) : Flatten(prime_list) = RunSieveFlat(n, b2)

C10_Witness ==
  /\ Returned
  /\ block_size = n
  /\ n = MaxN
  /\ Len(D) = 2
  /\ prime_list[1].val # << >>

\* the senders whose range has been derived
Ranged == {i \in 1..Len(D) : D[i].stage \notin {"pending", "drawn"}}

Covers(i, x) == D[i].lo <= x /\ x < D[i].hi

\* C11: the ranges [lo, hi) derived from the block indices partition the
\* integers sqrt_n + 1 .. n: block 0 starts right above sqrt_n, the range of
\* index k + 1 starts where that of index k ends, no range is longer than
\* block_size or goes beyond n, no two ranges overlap, and once all senders
\* are done every integer of the domain lies in exactly one range.
C11_RangesPartition ==
  block_size > 0 =>
    /\ \A i \in Ranged :
         /\ sqrt_n + 1 <= D[i].lo
         /\ D[i].lo <= D[i].hi
         /\ D[i].hi <= n + 1
         /\ D[i].hi - D[i].lo <= block_size
         /\ D[i].p = 0 => D[i].lo = sqrt_n + 1
    /\ \A i, j \in Ranged :
         /\ D[j].p = D[i].p + 1 => D[j].lo = D[i].hi
         /\ i # j => ~ \E x \in 0..n : Covers(i, x) /\ Covers(j, x)
    /\ Joined =>
         \A x \in (sqrt_n + 1)..n :
           Cardinality({i \in 1..Len(D) : Covers(i, x)}) = 1

\* a full block, a shorter last block and an empty one
C11_Witness ==
  /\ Joined
  /\ block_size > 0
  /\ Len(D) = 3
  /\ \E i \in 1..3 : D[i].hi - D[i].lo = block_size
  /\ \E i \in 1..3 : D[i].hi - D[i].lo \in 1..(block_size - 1)
  /\ \E i \in 1..3 : D[i].hi = D[i].lo

\* C12: the senders are executed by the pool: at most hw of them are Running
\* at a time and each one runs on a pool worker, not on the calling thread.
C12_RunsOnPool ==
  /\ Cardinality({i \in 1..Len(D) : Status(D[i]) = "Running"}) <= hw
  /\ \A i \in Drawn : D[i].thread = "pool"

\* C13: a sender moves only Pending -> Running -> Completed or Failed and
\* stays there; inside Running the stages follow draw, range, sieve, extract,
\* deposit; a block slot changes only in the deposit step of the sender that
\* holds it, after that sender's extraction; a Completed sender's slot is
\* written, by that sender.
StageSteps ==
  { <<"pending", "drawn">>, <<"drawn", "ranged">>, <<"ranged", "sieved">>,
    <<"sieved", "extracted">>, <<"extracted", "completed">>,
    <<"ranged", "failed">>, <<"sieved", "failed">> }

StageOrder ==
  /\ Len(D') >= Len(D)
  /\ \A i \in 1..Len(D) :
       D'[i].stage = D[i].stage \/ <<D[i].stage, D'[i].stage>> \in StageSteps
  /\ \A k \in DOMAIN prime_list \ {0} :
       prime_list'[k] # prime_list[k] =>
         \E i \in 1..Len(D) :
           /\ D[i].stage = "extracted"
           /\ D'[i].stage = "completed"
           /\ D[i].slot = k
           /\ prime_list'[k].val = D[i].primes

CompletedDeposited ==
  \A i \in 1..Len(D) :
    Status(D[i]) = "Completed" =>
      /\ D[i].slot \in DOMAIN prime_list
      /\ prime_list[D[i].slot].set
      /\ wlog[D[i].slot] = <<i>>

C13_PipelineStateMachine == []CompletedDeposited /\ [][StageOrder]_vars

\* one sender Completed, one Failed, one still Running
C13_Witness ==
  /\ pc = "sync_wait"
  /\ Len(D) = 3
  /\ Status(D[1]) = "Completed"
  /\ Status(D[2]) = "Failed"
  /\ D[3].stage = "extracted"
  /\ ~prime_list[D[3].slot].set

\* C14: before the first sender exists the base prime list is complete and
\* slot 0 holds it; no step taken while senders are built or run changes
\* either, and no sender ever writes slot 0.
BaseBuilt ==
  (D # << >> \/ pc \in {"build", "sync_wait", "returned", "threw"}) =>
    /\ base_primes = sieve_to_primes(sieve_seq(sqrt_n))
    /\ sqrt_n = CeilSqrt(n)
    /\ prime_list[0] = [set |-> TRUE, val |-> base_primes]
    /\ wlog[0] = << >>

BaseFrame ==
  pc \in {"build", "sync_wait"} =>
    /\ base_primes' = base_primes
    /\ 0 \in DOMAIN prime_list'
    /\ prime_list'[0] = prime_list[0]

C14_BaseReadOnly == []BaseBuilt /\ [][BaseFrame]_vars

\* all senders deposited, the base list of two primes is still in slot 0
C14_Witness ==
  /\ Returned
  /\ Len(D) = 3
  /\ Len(base_primes) = 2
  /\ prime_list[0].val = base_primes
  /\ \A k \in BlockSlots : Len(wlog[k]) = 1

\* C15: with block_size > 0 and threads that keep taking steps, every run
\* ends: all senders reach Completed or Failed and the join releases the
\* caller, which returns the table or rethrows.
C15_Terminates == (block_size > 0) ~> Joined

\* the join released the caller although two senders failed
C15_Witness ==
  /\ Joined
  /\ block_size > 0
  /\ Len(D) = 3
  /\ bod = 3
  /\ Status(D[1]) = "Failed"
  /\ Status(D[3]) = "Failed"
  /\ Status(D[2]) = "Completed"

\* C16: the block counter lives for one call: in each of main's two calls
\* the counter is 0 until the first draw, index 0 is among the indices drawn,
\* and no index reaches the number of senders of that call.
C16_CounterPerCall ==
  /\ (pc \in {"entry", "table", "build"} \/ Drawn = {}) => bod = 0
  /\ Drawn # {} => \E i \in Drawn : D[i].p = 0
  /\ \A i \in Drawn : D[i].p < Len(D)
  /\ bod <= Len(D)

\* the second call, all three indices drawn
C16_Witness ==
  /\ call = 2
  /\ pc = "sync_wait"
  /\ Len(D) = 3
  /\ bod = 3
  /\ D[2].p = 0

\* C17: the table has n / block_size + 2 slots from before the first sender
\* is built, one more than the senders launched; when the call returns every
\* slot is populated, slot 0 by the caller and each other slot by exactly one
\* sender.
C17_TableComplete ==
  block_size > 0 =>
    /\ (D # << >> \/ pc \in {"build", "sync_wait", "returned", "threw"}) =>
         DOMAIN prime_list = 0..((n \div block_size) + 1)
    /\ Started => Cardinality(DOMAIN prime_list) = Len(D) + 1
    /\ Returned =>
         /\ \A k \in DOMAIN prime_list : prime_list[k].set
         /\ wlog[0] = << >>
         /\ \A k \in BlockSlots : Len(wlog[k]) = 1

\* a single-block run that found primes above sqrt_n
C17_Witness ==
  /\ Returned
  /\ block_size > n
  /\ DOMAIN prime_list = 0..1
  /\ Len(prime_list[1].val) >= 2
  /\ wlog[1] = <<1>>

\* C18: in-bounds deposit: every index the counter hands out, in either call,
\* is at most n / block_size, so the slot a sender deposits into lies in
\* 1 .. n / block_size + 1, inside the table and never slot 0; no deposit
\* goes past the end of the table.
C18_DepositInBounds ==
  block_size > 0 =>
    /\ pc # "crashed"
    /\ \A i \in Drawn : D[i].p \in 0..(n \div block_size)
    /\ \A i \in Ranged :
         /\ D[i].slot \in 1..((n \div block_size) + 1)
         /\ D[i].slot \in DOMAIN prime_list

\* the second call, the last slot of the table deposited by the first sender
C18_Witness ==
  /\ call = 2
  /\ Len(D) = 3
  /\ D[1].slot = 3
  /\ wlog[3] = <<1>>
  /\ prime_list[3].set

====
